---- MODULE Spec2Model ----
(***************************************************************************)
(* Model of the audit server (src/server/index.js): the POST /api/audit    *)
(* handler with its result cache, the isAuditRunning gate, the retry       *)
(* wrapper runLighthouseWithRetry, and the median helpers.                 *)
(*                                                                         *)
(* JavaScript runs one callback at a time, so every action below is the    *)
(* code that runs between two awaits of one request: from the arrival of   *)
(* the request to its first await, from a timer firing to the next await,  *)
(* from the engine promise settling to the next await or the response.     *)
(***************************************************************************)
EXTENDS Integers, Sequences, FiniteSets, TLC

\* ------------------------------------------------------------ bounds
NumReq == 3          \* requests that arrive during one run
MaxRejected == 1     \* of these, requests that end before the cache lookup
MaxFaults == 3       \* engine invocations that fail during one run
MaxShortTicks == 3   \* clock steps of ShortStep ms
MaxLongTicks == 1    \* clock steps of LongStep ms
MaxRuns == 4         \* largest `runs` argument of runLighthouseWithMedian

\* ------------------------------------------------------------ program constants
CACHE_DURATION == 3600000
PollInterval == 1000
BackoffUnit == 2000
DefaultMaxRetries == 3

\* A JSON field that is absent from the body (JavaScript undefined).
undefined == "<undefined>"

\* ------------------------------------------------------------ inputs
UrlValues == {undefined, "not-a-url", "ftp://a.com", "http://a.com"}
DeviceValues == {undefined, "desktop", "tablet"}

\* req.body as express.json() leaves it: an object with optional url and
\* device fields, or undefined when no JSON body was parsed (Express 5 leaves
\* req.body unset then; Express 4 sets it to {}, the body with both fields
\* absent).
Bodies ==
  {[hasBody |-> FALSE, url |-> undefined, device |-> undefined]}
  \cup [hasBody : {TRUE}, url : UrlValues, device : DeviceValues]

\* Performance scores an engine run may report (Math.round(score * 100)).
Scores == {70, 80, 90}
\* The object runLighthouse returns; of its other fields (scores, metrics), none
\* of which the orchestration code reads, accessibility stands for all.
AuditResults == [performance : {70, 90}, accessibility : {100}]
\* The results the runs of runLighthouseWithMedian may yield.
Samples == [performance : Scores, accessibility : {50, 100}]
\* Texts of the errors the engine (launch, navigation) may raise.
EngineFaults == {"launch failed", "navigation timeout"}

\* ------------------------------------------------------------ state
VARIABLES
  isAuditRunning,  \* the gate flag
  cache,           \* Map: cacheKey -> [timestamp, data]
  now,             \* Date.now()
  reqs,            \* per request: position in the handler and its locals
  faults,          \* history: engine invocations that failed so far
  firstResult,     \* history: per (url, device), the result of the first successful audit
  lastResult,      \* history: per (url, device), the latest successful audit and its time
  \* runLighthouseWithMedian, called on its own
  mpc,             \* "running", "returned" or "thrown"
  runs,            \* its `runs` argument
  results,         \* its `results` array
  samples,         \* history: the results in the order the runs produced them
  median,          \* the value it returned
  merror,          \* the error it threw
  mcalls,          \* history: runLighthouse calls it has made
  mfaults,         \* history: the faults of the calls that were rejected
  \* runLighthouseWithRetry and runLighthouse, step by step
  rpc,             \* "attempt", "page", "kill", "sleep", "returned" or "thrown"
  rattempts,       \* `attempts` of runLighthouseWithRetry
  rlastError,      \* `lastError` of runLighthouseWithRetry
  chrome,          \* `chrome` of the runLighthouse call in progress
  outcome,         \* what that call's try/catch settled on, kept across the finally
  rresult,         \* the value runLighthouseWithRetry returned
  rerror,          \* the error runLighthouseWithRetry threw
  procs,           \* history: every Chrome process launched
  tries,           \* history: one record per finished runLighthouse call
  waits            \* history: the delays of line 174

orch == <<isAuditRunning, cache, now, reqs, faults, firstResult, lastResult>>
agg == <<mpc, runs, results, samples, median, merror, mcalls, mfaults>>
eng == <<rpc, rattempts, rlastError, chrome, outcome, rresult, rerror, procs, tries,
         waits>>
vars == <<orch, agg, eng>>

Requests == 1..NumReq
NoResult == [performance |-> -1, accessibility |-> -1]
Identities == {"http://a.com"} \X {"mobile", "desktop"}

NoTimer == [setAt |-> 0, delay |-> 0]

\* Mutant of TimerExpired: no timer ever comes due.
TimerNeverExpires(timer, t) == FALSE

\* setTimeout(resolve, delay) called at time t; it fires no earlier than t + delay.
SetTimeout(t, delay) == [setAt |-> t, delay |-> delay]
TimerExpired(timer, t) == t >= timer.setAt + timer.delay

NewRequest ==
  [pc |-> "new",
   body |-> [hasBody |-> FALSE, url |-> undefined, device |-> undefined],
   attempts |-> 0,          \* local of runLighthouseWithRetry
   lastError |-> <<>>,      \* local of runLighthouseWithRetry (message tokens)
   timer |-> NoTimer,       \* the pending setTimeout: when set, and its delay
   calls |-> 0,             \* history: runLighthouse invocations started
   delays |-> <<>>,         \* history: delays of the backoff timers set
   faultLog |-> <<>>,       \* history: the fault of each failed invocation
   polled |-> FALSE,        \* history: waited at least once for the gate
   events |-> <<>>,         \* history: what the handler did for it, in order
   responses |-> <<>>]      \* history: responses written to res

\* ------------------------------------------------------------ pure helpers

\* `!url` (line 202): undefined and the empty string are falsy.
UrlIsFalsy(url) == url = undefined \/ url = ""

\* new URL(url) (line 212): throws for a string that is no absolute URL,
\* otherwise yields the protocol and the serialised href.
ParseURL(url) ==
  CASE url = "http://a.com" -> [ok |-> TRUE, protocol |-> "http:", href |-> "http://a.com/"]
    [] url = "ftp://a.com" -> [ok |-> TRUE, protocol |-> "ftp:", href |-> "ftp://a.com/"]
    [] OTHER -> [ok |-> FALSE, protocol |-> "", href |-> ""]

\* Lines 211-221: the url parses and its protocol is http: or https:.
UrlIsValid(url) ==
  LET p == ParseURL(url) IN p.ok /\ p.protocol \in {"http:", "https:"}

\* `device = 'mobile'` in the destructuring (line 200).
DeviceOf(body) == IF body.device = undefined THEN "mobile" ELSE body.device

\* Line 223.
DeviceIsAllowed(device) == device \in {"mobile", "desktop"}

\* Mutant of CacheKey: the device is left out of the key.
CacheKeyUrlOnly(url, device) == url

\* Line 230: `${url}-${device}`, from the url string as sent.
CacheKey(url, device) == url \o "-" \o device

\* Mutant of CacheFresh: the lookup answers only while the gate is free.
CacheFreshGateFree(c, key, t) ==
  ~isAuditRunning /\ key \in DOMAIN c /\ t - c[key].timestamp < CACHE_DURATION

\* Mutant of CacheFresh: an entry of age exactly CACHE_DURATION still counts.
CacheFreshInclusive(c, key, t) ==
  key \in DOMAIN c /\ t - c[key].timestamp <= CACHE_DURATION

\* Line 233: an entry exists and is younger than CACHE_DURATION.
CacheFresh(c, key, t) ==
  key \in DOMAIN c /\ t - c[key].timestamp < CACHE_DURATION

\* Mutant of BackoffDelay: the same delay after every failure.
BackoffDelayFlat(attempts) == BackoffUnit

\* Line 172.
BackoffDelay(attempts) == attempts * BackoffUnit

\* Line 136: the error runLighthouse throws.
EngineError(device, fault) == <<device, "audit failed:", fault>>

\* Line 179: the error runLighthouseWithRetry throws.
RetryError(device, maxRetries, lastError) ==
  <<device, "audit failed after", ToString(maxRetries), "attempts:">> \o lastError

\* res.json / res.status(s).json: one more response written.
Respond(r, status, payload) ==
  [r EXCEPT !.responses = Append(@, [status |-> status, payload |-> payload]),
            !.events = Append(@, "respond")]

\* One more entry in the request's history of events: "acquire" and "release"
\* for the writes of true and false to isAuditRunning, "engine" for a
\* runLighthouse invocation, "store" for cache.set, "respond" for a response.
Log(r, event) == [r EXCEPT !.events = Append(@, event)]

ValidationError(message) == [error |-> "Validation Error", message |-> <<message>>]

\* Mutant of AuditError: the body carries the message alone.
AuditErrorBare(message) == [message |-> message]

AuditError(message) == [error |-> "Audit Error", message |-> message]

\* ------------------------------------------------------------ handler steps

\* runLighthouseWithRetry, one turn of its loop up to `await runLighthouse`
\* (lines 154-158).
CallEngine(r) ==
  [r EXCEPT !.pc = "engine",
            !.attempts = @ + 1,
            !.calls = @ + 1,
            !.timer = NoTimer,
            !.events = Append(@, "engine")]

\* Lines 237-246: the gate is tested and taken in one turn; a held gate sends
\* the request to sleep for PollInterval.
AcquireOrPoll(i, r) ==
  IF isAuditRunning
    THEN /\ reqs' = [reqs EXCEPT ![i] = [r EXCEPT !.pc = "poll",
                                                  !.polled = TRUE,
                                                  !.timer = SetTimeout(now, PollInterval)]]
         /\ UNCHANGED isAuditRunning
    ELSE /\ isAuditRunning' = TRUE
         /\ reqs' = [reqs EXCEPT ![i] = CallEngine(Log(r, "acquire"))]

\* A body the handler answers before it looks at the cache (lines 200-228).
IsRejected(body) ==
  \/ ~body.hasBody
  \/ UrlIsFalsy(body.url)
  \/ ~UrlIsValid(body.url)
  \/ ~DeviceIsAllowed(DeviceOf(body))
Rejected(j) == reqs[j].pc = "done" /\ IsRejected(reqs[j].body)

\* Lines 198-246: a request reaches the handler.
Arrive(i, body) ==
  LET r == [reqs[i] EXCEPT !.body = body]
      device == DeviceOf(body)
      key == CacheKey(body.url, device)
  IN
  /\ reqs[i].pc = "new"
  /\ \A j \in Requests : j < i => reqs[j].pc # "new"
  /\ IsRejected(body) => Cardinality({j \in Requests : Rejected(j)}) < MaxRejected
  /\ IF ~body.hasBody
       THEN \* line 200 throws a TypeError, caught at line 258
            /\ isAuditRunning' = FALSE
            /\ reqs' = [reqs EXCEPT ![i] =
                 Respond(Log([r EXCEPT !.pc = "done"], "release"), 500,
                         AuditError(<<"Cannot destructure property 'url'">>))]
       ELSE IF UrlIsFalsy(body.url)
       THEN /\ reqs' = [reqs EXCEPT ![i] =
                 Respond([r EXCEPT !.pc = "done"], 400, ValidationError("URL is required"))]
            /\ UNCHANGED isAuditRunning
       ELSE IF ~UrlIsValid(body.url)
       THEN /\ reqs' = [reqs EXCEPT ![i] =
                 Respond([r EXCEPT !.pc = "done"], 400, ValidationError("Invalid URL format"))]
            /\ UNCHANGED isAuditRunning
       ELSE IF ~DeviceIsAllowed(device)
       THEN /\ reqs' = [reqs EXCEPT ![i] =
                 Respond([r EXCEPT !.pc = "done"], 400,
                         ValidationError("Device must be either mobile or desktop"))]
            /\ UNCHANGED isAuditRunning
       ELSE IF CacheFresh(cache, key, now)
       THEN /\ reqs' = [reqs EXCEPT ![i] =
                 Respond([r EXCEPT !.pc = "done"], 200, cache[key].data)]
            /\ UNCHANGED isAuditRunning
       ELSE AcquireOrPoll(i, r)
  /\ UNCHANGED <<cache, now, faults, firstResult, lastResult, agg, eng>>

\* Lines 237-241: the poll timer fires and the loop condition is read again.
PollWake(i) ==
  /\ reqs[i].pc = "poll"
  /\ TimerExpired(reqs[i].timer, now)
  /\ AcquireOrPoll(i, reqs[i])
  /\ UNCHANGED <<cache, now, faults, firstResult, lastResult, agg, eng>>

\* Mutant of ReleaseInFinally: the finally block leaves the flag as it is.
KeepHeld(held) == held

\* Line 256, the finally block of the protected section.
ReleaseInFinally(held) == FALSE

\* Line 260, the outer catch block.
ReleaseInCatch(held) == FALSE

\* cache.set (lines 249-252).
CacheSet(c, key, t, result) ==
  [k \in DOMAIN c \cup {key} |->
     IF k = key THEN [timestamp |-> t, data |-> result] ELSE c[k]]

\* Mutant of SucceedExit: the gate is released before the response is written.
SucceedExitReleaseFirst(r, result) ==
  Respond(Log(Log(r, "store"), "release"), 200, result)

\* Lines 249-257, in the order of the code: cache.set, res.json(result), and
\* the finally block.
SucceedExit(r, result) ==
  Log(Respond(Log(r, "store"), 200, result), "release")

\* Mutant of FailExit: the catch block does not write the flag again.
FailExitReleaseOnce(r, payload) ==
  Respond(Log(r, "release"), 500, payload)

\* Lines 255-264 when runLighthouseWithRetry threw: the finally block, then
\* the catch block (which writes the flag again and answers 500).
FailExit(r, payload) ==
  Respond(Log(Log(r, "release"), "release"), 500, payload)

\* Lines 158-165 and 246-257: the engine resolved with a result; the retry
\* wrapper accepts it, the handler caches it, responds and releases the gate.
EngineSucceeds(i, result) ==
  LET r == reqs[i]
      device == DeviceOf(r.body)
      id == <<r.body.url, device>>
  IN
  /\ r.pc = "engine"
  /\ cache' = CacheSet(cache, CacheKey(r.body.url, device), now, result)
  /\ reqs' = [reqs EXCEPT ![i] = SucceedExit([r EXCEPT !.pc = "done"], result)]
  /\ isAuditRunning' = ReleaseInFinally(isAuditRunning)
  /\ firstResult' = [firstResult EXCEPT ![id] = IF @ = NoResult THEN result ELSE @]
  /\ lastResult' = [lastResult EXCEPT ![id] = [at |-> now, result |-> result]]
  /\ UNCHANGED <<now, faults, agg, eng>>

\* Mutant of CacheSetSkipped: the failure is stored like a result.
CacheSetOnFailure(c, key, t) == CacheSet(c, key, t, NoResult)

\* Lines 246-252: the await of line 246 throws, so cache.set is not reached,
\* and neither the finally nor the catch block touches the cache.
CacheSetSkipped(c, key, t) == c

\* Mutant of RecordError: only the first error is kept.
KeepFirstError(previous, error) == IF previous = <<>> THEN error ELSE previous

\* Line 168: `lastError = error`.
RecordError(previous, error) == error

\* Lines 166-179 and 255-265: the engine rejected.  With attempts left the
\* wrapper sets the backoff timer; otherwise it throws, the finally block and
\* then the catch block release the gate, and the handler answers 500.
EngineFails(i, fault) ==
  LET r == reqs[i]
      device == DeviceOf(r.body)
      err == RecordError(r.lastError, EngineError(device, fault))
      delay == BackoffDelay(r.attempts)
  IN
  /\ r.pc = "engine"
  /\ faults < MaxFaults
  /\ faults' = faults + 1
  /\ IF r.attempts < DefaultMaxRetries
       THEN /\ reqs' = [reqs EXCEPT ![i] = [r EXCEPT !.pc = "backoff",
                                                     !.lastError = err,
                                                     !.faultLog = Append(@, fault),
                                                     !.delays = Append(@, delay),
                                                     !.timer = SetTimeout(now, delay)]]
            /\ UNCHANGED <<isAuditRunning, cache>>
       ELSE /\ cache' = CacheSetSkipped(cache, CacheKey(r.body.url, device), now)
            /\ reqs' = [reqs EXCEPT ![i] =
                 FailExit([r EXCEPT !.pc = "done", !.lastError = err,
                                    !.faultLog = Append(@, fault)],
                          AuditError(RetryError(device, DefaultMaxRetries, err)))]
            /\ isAuditRunning' = ReleaseInCatch(ReleaseInFinally(isAuditRunning))
  /\ UNCHANGED <<now, firstResult, lastResult, agg, eng>>

\* Lines 174 and 154-158: the backoff timer fires and the loop runs again.
BackoffWake(i) ==
  /\ reqs[i].pc = "backoff"
  /\ TimerExpired(reqs[i].timer, now)
  /\ reqs' = [reqs EXCEPT ![i] = CallEngine(reqs[i])]
  /\ UNCHANGED <<isAuditRunning, cache, now, faults, firstResult, lastResult, agg, eng>>

\* The server after start-up (lines 17-21).
OrchInit ==
  /\ isAuditRunning = FALSE
  /\ cache = [k \in {} |-> [timestamp |-> 0, data |-> NoResult]]
  /\ now = 0
  /\ reqs = [i \in Requests |-> NewRequest]
  /\ faults = 0
  /\ firstResult = [id \in Identities |-> NoResult]
  /\ lastResult = [id \in Identities |-> [at |-> 0, result |-> NoResult]]

\* ------------------------------------------------------------ JavaScript values
\* A number (n in thousandths, so that a score of 0.705 is 705), NaN, a
\* missing value (null or undefined) and a string that is not a number.
JsNumber(n) == [type |-> "number", nan |-> FALSE, n |-> n]
NaN == [type |-> "number", nan |-> TRUE, n |-> 0]
JsMissing == [type |-> "undefined", nan |-> FALSE, n |-> 0]
JsText == [type |-> "string", nan |-> FALSE, n |-> 0]

\* `typeof v`.
Typeof(v) == v.type

\* `v || 0`: 0 for a falsy v (missing, 0 or NaN), v otherwise.
OrZero(v) ==
  IF Typeof(v) = "undefined" \/ (Typeof(v) = "number" /\ (v.nan \/ v.n = 0))
    THEN JsNumber(0)
    ELSE v

\* `Math.round(v * 100)`, as a whole number: a string that is not a number
\* gives NaN, and halves round up.
RoundTimes100(v) ==
  IF Typeof(v) = "number" /\ ~v.nan
    THEN JsNumber((v.n * 100 + 500) \div 1000)
    ELSE NaN

\* ------------------------------------------------------------ runLighthouse
NoProcess == 0
NoScore == [performance |-> JsMissing]
Returned(result) == [kind |-> "return", result |-> result, error |-> <<>>]
Thrown(error) == [kind |-> "throw", result |-> NoScore, error |-> error]
NoOutcome == [kind |-> "none", result |-> NoScore, error |-> <<>>]

\* What `await lighthouse(url, options, config)` (line 94) can do: reject,
\* resolve without an lhr, resolve with an lhr that lacks categories or audits,
\* or resolve with an lhr whose performance score is `score`.
RawScores == {JsNumber(705), JsNumber(900), JsMissing, JsText}
NotRun == [kind |-> "not run", score |-> JsMissing]
LighthouseOutcomes ==
  [kind : {"rejects", "no lhr", "no categories"}, score : {JsMissing}]
    \cup [kind : {"lhr"}, score : RawScores]

\* Lines 94-133 and the catch of lines 134-136: what the call settles on
\* before its finally block runs.
Determined(lh) ==
  IF lh.kind = "lhr"
    THEN Returned([performance |-> RoundTimes100(OrZero(lh.score))])
    ELSE Thrown(EngineError("mobile",
           IF lh.kind = "rejects" THEN "navigation timeout"
           ELSE IF lh.kind = "no lhr" THEN "Failed to get results for mobile audit"
           ELSE "Missing required audit data for mobile"))

\* Mutant of KillFailed: the error of chrome.kill() replaces the outcome.
KillFailedRethrows(settled) == Thrown(<<"kill failed">>)

\* Lines 141-144: an error of chrome.kill() is logged and dropped.
KillFailed(settled) == settled

\* Mutant of IsInvalidResult: no result passes.
RejectsEveryResult(result) == TRUE

\* Line 161: `!result || typeof result.performance !== 'number'`; the result
\* of line 127 is always an object.
IsInvalidResult(result) == Typeof(result.performance) # "number"

\* Lines 158-179: runLighthouse call number a has settled with `settled`.
RetryContinues(a, settled) ==
  LET accepted == settled.kind = "return" /\ ~IsInvalidResult(settled.result)
      error == IF settled.kind = "return"
                 THEN <<"Invalid result structure">>
                 ELSE settled.error
  IN
  IF accepted
    THEN /\ rpc' = "returned"
         /\ rresult' = settled.result
         /\ UNCHANGED <<rlastError, rerror, waits>>
    ELSE /\ rlastError' = RecordError(rlastError, error)
         /\ UNCHANGED rresult
         /\ IF a < DefaultMaxRetries
              THEN /\ rpc' = "sleep"
                   /\ waits' = Append(waits, BackoffDelay(a))
                   /\ UNCHANGED rerror
              ELSE /\ rpc' = "thrown"
                   /\ rerror' = RetryError("mobile", DefaultMaxRetries,
                                           RecordError(rlastError, error))
                   /\ UNCHANGED waits

\* One finished runLighthouse call, for the history.
Try(a, launched, lh, determined, settled, killFailed) ==
  [attempt |-> a, launched |-> launched, lh |-> lh, determined |-> determined,
   yielded |-> settled, killFailed |-> killFailed,
   accepted |-> settled.kind = "return" /\ ~IsInvalidResult(settled.result)]

\* Lines 154-157 and 27: the loop starts an attempt and Chrome is launched.
LaunchSucceeds ==
  /\ rpc = "attempt"
  /\ rattempts' = rattempts + 1
  /\ chrome' = Len(procs) + 1
  /\ procs' = Append(procs, [attempt |-> rattempts + 1, killTried |-> FALSE,
                               alive |-> TRUE])
  /\ rpc' = "page"
  /\ UNCHANGED <<rlastError, outcome, rresult, rerror, tries, waits, orch, agg>>

\* Lines 154-157, 27 and 134-146: the launch rejects; `chrome` is still
\* undefined, so the finally block has nothing to kill.
LaunchFails ==
  LET a == rattempts + 1
      settled == Thrown(EngineError("mobile", "launch failed"))
  IN
  /\ rpc = "attempt"
  /\ rattempts' = a
  /\ tries' = Append(tries, Try(a, FALSE, NotRun, settled, settled, FALSE))
  /\ RetryContinues(a, settled)
  /\ UNCHANGED <<chrome, outcome, procs, orch, agg>>

\* Lines 94-140: lighthouse() settles; the call's outcome is decided and the
\* finally block awaits chrome.kill().
LighthouseSettles(lh) ==
  /\ rpc = "page"
  /\ outcome' = [lh |-> lh, determined |-> Determined(lh)]
  /\ rpc' = "kill"
  /\ UNCHANGED <<rattempts, rlastError, chrome, rresult, rerror, procs, tries, waits,
                 orch, agg>>

\* Lines 140 and 158-179: chrome.kill() resolves and the call settles.
KillSucceeds ==
  LET settled == outcome.determined IN
  /\ rpc = "kill"
  /\ procs' = [procs EXCEPT ![chrome] = [@ EXCEPT !.killTried = TRUE, !.alive = FALSE]]
  /\ tries' = Append(tries, Try(rattempts, TRUE, outcome.lh, outcome.determined,
                                settled, FALSE))
  /\ chrome' = NoProcess
  /\ outcome' = [lh |-> NotRun, determined |-> NoOutcome]
  /\ RetryContinues(rattempts, settled)
  /\ UNCHANGED <<rattempts, orch, agg>>

\* Lines 140-144 and 158-179: chrome.kill() rejects and the call settles.
KillFails ==
  LET settled == KillFailed(outcome.determined) IN
  /\ rpc = "kill"
  /\ procs' = [procs EXCEPT ![chrome] = [@ EXCEPT !.killTried = TRUE]]
  /\ tries' = Append(tries, Try(rattempts, TRUE, outcome.lh, outcome.determined,
                                settled, TRUE))
  /\ chrome' = NoProcess
  /\ outcome' = [lh |-> NotRun, determined |-> NoOutcome]
  /\ RetryContinues(rattempts, settled)
  /\ UNCHANGED <<rattempts, orch, agg>>

\* Lines 174 and 154: the delay is over and the loop runs again.
SleepWake ==
  /\ rpc = "sleep"
  /\ rpc' = "attempt"
  /\ UNCHANGED <<rattempts, rlastError, chrome, outcome, rresult, rerror, procs, tries,
                 waits, orch, agg>>

\* No call of runLighthouseWithRetry is followed step by step.
EngIdle ==
  /\ rpc = "idle"
  /\ rattempts = 0
  /\ rlastError = <<>>
  /\ chrome = NoProcess
  /\ outcome = [lh |-> NotRun, determined |-> NoOutcome]
  /\ rresult = NoScore
  /\ rerror = <<>>
  /\ procs = <<>>
  /\ tries = <<>>
  /\ waits = <<>>

\* ------------------------------------------------------------ median selection

\* Mutant of ByPerformanceDesc: ascending order.
ByPerformanceAsc(a, b) == a.performance - b.performance

\* The comparator of line 183: negative when a sorts before b.
ByPerformanceDesc(a, b) == b.performance - a.performance

\* Array.prototype.sort with a comparator: a stable sort.  Insert(x, sorted)
\* puts x behind every element that does not sort after it.
RECURSIVE Insert(_, _)
Insert(x, sorted) ==
  IF sorted = <<>> THEN <<x>>
  ELSE IF ByPerformanceDesc(Head(sorted), x) <= 0
         THEN <<Head(sorted)>> \o Insert(x, Tail(sorted))
         ELSE <<x>> \o sorted

RECURSIVE SortArray(_)
SortArray(arr) ==
  IF arr = <<>> THEN <<>>
  ELSE Insert(arr[Len(arr)], SortArray(SubSeq(arr, 1, Len(arr) - 1)))

\* Math.floor(sorted.length / 2), as the 1-based position in the sequence.
MedianIndex(len) == (len \div 2) + 1

\* getMedianResult (lines 182-185); sort works in place, so the array the
\* caller passed is sorted afterwards.
GetMedianResult(arr) ==
  LET sorted == SortArray(arr)
  IN [sorted |-> sorted, value |-> sorted[MedianIndex(Len(sorted))]]

\* runLighthouseWithMedian (lines 187-196): one run resolved with `result`.
MedianRunReturns(result) ==
  LET pushed == Append(results, result)
      picked == GetMedianResult(pushed)
  IN
  /\ mpc = "running"
  /\ samples' = Append(samples, result)
  /\ IF Len(pushed) < runs
       THEN /\ results' = pushed
            /\ mcalls' = mcalls + 1
            /\ UNCHANGED <<mpc, median>>
       ELSE /\ results' = picked.sorted
            /\ median' = picked.value
            /\ mpc' = "returned"
            /\ UNCHANGED mcalls
  /\ UNCHANGED <<runs, merror, mfaults, orch, eng>>

\* Mutant of MedianRunThrows: the rejected run is skipped and the loop goes on.
MedianRunSkipped(fault) ==
  /\ mpc = "running"
  /\ mfaults' = Append(mfaults, fault)
  /\ mcalls' = mcalls + 1
  /\ UNCHANGED <<mpc, merror, runs, results, samples, median, orch, eng>>

\* runLighthouseWithMedian: one run rejected.  The await of line 191 is in no
\* try block, so the error leaves the function and the loop ends.
MedianRunThrows(fault) ==
  /\ mpc = "running"
  /\ mpc' = "thrown"
  /\ merror' = EngineError("mobile", fault)
  /\ mfaults' = Append(mfaults, fault)
  /\ UNCHANGED <<runs, results, samples, median, mcalls, orch, eng>>

\* runLighthouseWithMedian(url, device, n) is called.
MedianInit ==
  /\ OrchInit
  /\ mpc = "running"
  /\ runs \in 1..MaxRuns
  /\ results = <<>>
  /\ samples = <<>>
  /\ median = NoResult
  /\ merror = <<>>
  /\ mcalls = 1
  /\ mfaults = <<>>
  /\ EngIdle

MedianNext ==
  \/ \E result \in Samples : MedianRunReturns(result)
  \/ \E fault \in EngineFaults : MedianRunThrows(fault)

SpecMedian == MedianInit /\ [][MedianNext]_vars

\* ------------------------------------------------------------ the clock
ShortStep == BackoffUnit
LongStep == CACHE_DURATION - ShortStep
ClockValues ==
  {s * ShortStep + l * LongStep : s \in 0..MaxShortTicks, l \in 0..MaxLongTicks}

Tick(d) ==
  /\ now + d \in ClockValues
  /\ now' = now + d
  /\ UNCHANGED <<isAuditRunning, cache, reqs, faults, firstResult, lastResult, agg, eng>>

\* ------------------------------------------------------------ specification
\* The server never calls runLighthouseWithMedian.
AggIdle ==
  /\ mpc = "idle"
  /\ runs = 0
  /\ results = <<>>
  /\ samples = <<>>
  /\ median = NoResult
  /\ merror = <<>>
  /\ mcalls = 0
  /\ mfaults = <<>>

\* runLighthouseWithRetry(url, 'mobile') is called on an idle server.
RetryInit ==
  /\ OrchInit
  /\ AggIdle
  /\ rpc = "attempt"
  /\ rattempts = 0
  /\ rlastError = <<>>
  /\ chrome = NoProcess
  /\ outcome = [lh |-> NotRun, determined |-> NoOutcome]
  /\ rresult = NoScore
  /\ rerror = <<>>
  /\ procs = <<>>
  /\ tries = <<>>
  /\ waits = <<>>

RetryNext ==
  \/ LaunchSucceeds
  \/ LaunchFails
  \/ \E lh \in LighthouseOutcomes : LighthouseSettles(lh)
  \/ KillSucceeds
  \/ KillFails
  \/ SleepWake

SpecRetry == RetryInit /\ [][RetryNext]_vars

Init == OrchInit /\ AggIdle /\ EngIdle

Next ==
  \/ \E i \in Requests, body \in Bodies : Arrive(i, body)
  \/ \E i \in Requests : PollWake(i)
  \/ \E i \in Requests, result \in AuditResults : EngineSucceeds(i, result)
  \/ \E i \in Requests, fault \in EngineFaults : EngineFails(i, fault)
  \/ \E i \in Requests : BackoffWake(i)
  \/ \E d \in {ShortStep, LongStep} : Tick(d)

Spec == Init /\ [][Next]_vars

\* ------------------------------------------------------------ progress
\* The requests of the runs in which progress is checked: no parsed body,
\* and the two audits of one url.  One result and one fault stand for all.
LiveBodies ==
  {body \in Bodies :
     \/ ~body.hasBody
     \/ body.url = "http://a.com" /\ body.device \in {undefined, "desktop"}}
LiveResults == {result \in AuditResults : result.performance = 90}
LiveFaults == {"navigation timeout"}

\* Time goes on after the last instant the clock records: the timers of the
\* sleeping requests (lines 238 and 174) come due.
TimersComeDue ==
  /\ now + ShortStep \notin ClockValues
  /\ now + LongStep \notin ClockValues
  /\ \E i \in Requests :
       reqs[i].pc \in {"poll", "backoff"} /\ ~TimerExpired(reqs[i].timer, now)
  /\ reqs' = [i \in Requests |->
                IF reqs[i].pc \in {"poll", "backoff"}
                  THEN [reqs[i] EXCEPT !.timer = SetTimeout(now - @.delay, @.delay)]
                  ELSE reqs[i]]
  /\ UNCHANGED <<isAuditRunning, cache, now, faults, firstResult, lastResult, agg, eng>>

\* The runLighthouse call of request i settles.
EngineSettles(i) ==
  \/ \E result \in LiveResults : EngineSucceeds(i, result)
  \/ \E fault \in LiveFaults : EngineFails(i, fault)

LiveNext ==
  \/ \E i \in Requests, body \in LiveBodies : Arrive(i, body)
  \/ \E i \in Requests : PollWake(i)
  \/ \E i \in Requests : EngineSettles(i)
  \/ \E i \in Requests : BackoffWake(i)
  \/ \E d \in {ShortStep, LongStep} : Tick(d)
  \/ TimersComeDue

\* Every engine invocation settles, time goes on, and the event loop runs
\* every timer callback that is due; requests need not arrive.
Fairness ==
  /\ \A i \in Requests : WF_vars(EngineSettles(i))
  /\ \A i \in Requests : WF_vars(PollWake(i))
  /\ \A i \in Requests : WF_vars(BackoffWake(i))
  /\ WF_vars(\E d \in {ShortStep, LongStep} : Tick(d))
  /\ WF_vars(TimersComeDue)

SpecLive == Init /\ [][LiveNext]_vars /\ Fairness

\* ------------------------------------------------------------ claims

\* Requests whose runLighthouse invocation has not settled yet.
InFlight == {i \in Requests : reqs[i].pc = "engine"}

\* Requests between `isAuditRunning = true` (line 241) and the end of the
\* finally block (line 257).
InSection == {i \in Requests : reqs[i].pc \in {"engine", "backoff"}}

LastResponse(i) == reqs[i].responses[Len(reqs[i].responses)]
Answered(i, status) ==
  reqs[i].pc = "done" /\ reqs[i].responses # <<>> /\ LastResponse(i).status = status

\* C1: at most one engine invocation (runLighthouse call) is in flight at any
\* instant, whatever requests arrive and however their steps interleave.
MutualExclusion == Cardinality(InFlight) <= 1

\* The (url, device) a request asks for, as the caller sees it.
IdentityOf(body) ==
  <<body.url, IF body.device = undefined THEN "mobile" ELSE body.device>>

\* A request the handler takes to the cache lookup.
Accepted(body) ==
  /\ body.hasBody
  /\ body.url = "http://a.com"
  /\ body.device \in {undefined, "mobile", "desktop"}

\* Request i was answered 200 without any engine invocation of its own.
ServedFromCache(i) == Answered(i, 200) /\ reqs[i].calls = 0

\* Request i is handled in this step (it reaches the handler).
Handled(i) == reqs[i].pc = "new" /\ reqs'[i].pc # "new"

\* Request i is answered from the cache in the step that handles it.
HitStep(i) ==
  /\ Handled(i)
  /\ reqs'[i].pc = "done"
  /\ Len(reqs'[i].responses) = 1
  /\ reqs'[i].responses[1].status = 200
  /\ reqs'[i].calls = 0

\* C2 (as stated): a request served from the cache gets the result the first
\* successful request for its (url, device) returned.
CacheHitReturnsFirstResult ==
  \A i \in Requests :
    ServedFromCache(i) =>
      LastResponse(i).payload = firstResult[IdentityOf(reqs[i].body)]

\* C2 (amended): a request handled while the latest successful audit of its
\* (url, device) is younger than TTL is answered at once with the result of
\* that latest audit, without an engine invocation.
CacheHitReturnsLatestResult ==
  [][\A i \in Requests :
       LET body == reqs'[i].body
           latest == lastResult[IdentityOf(body)]
       IN (/\ Handled(i)
           /\ Accepted(body)
           /\ latest.result # NoResult
           /\ now - latest.at < 3600000)
          => (HitStep(i) /\ reqs'[i].responses[1].payload = latest.result)]_vars

\* C2 witness: a request was served from the cache with a result other than the
\* one the first successful request for its key returned.
CacheHitAfterOverwrite ==
  \E i \in Requests :
    /\ ServedFromCache(i)
    /\ LastResponse(i).payload # firstResult[IdentityOf(reqs[i].body)]

\* C3: an entry is served iff its age is below TTL; a request that finds no
\* entry or one of age >= TTL goes on to the gate and the engine and is not
\* answered by the lookup, and the lookup leaves the cache as it was.
CacheExpiry ==
  [][\A i \in Requests :
       LET body == reqs'[i].body
           key == body.url \o "-" \o IdentityOf(body)[2]
           fresh == key \in DOMAIN cache /\ now - cache[key].timestamp < 3600000
       IN (Handled(i) /\ Accepted(body)) =>
            /\ cache' = cache
            /\ HitStep(i) <=> fresh
            /\ ~fresh => /\ reqs'[i].pc \in {"poll", "engine"}
                          /\ reqs'[i].responses = <<>>
                          /\ reqs'[i].pc = "engine" => reqs'[i].calls = 1]_vars

\* C3 witness: a request found an entry of age >= TTL, started an engine
\* invocation, and the stale entry is still in the cache.
StaleEntryMissed ==
  \E i \in Requests :
    LET key == CacheKey(reqs[i].body.url, DeviceOf(reqs[i].body)) IN
    /\ reqs[i].pc = "engine"
    /\ reqs[i].calls = 1
    /\ key \in DOMAIN cache
    /\ now - cache[key].timestamp >= CACHE_DURATION

\* Request i was answered 500 after engine failures (not by the outer catch
\* alone).
EngineFailed(i) == Answered(i, 500) /\ reqs[i].calls > 0

\* C4: no request makes a fourth engine invocation; a request whose every
\* invocation failed made exactly 3, set a backoff timer of 2000 ms after the
\* first failure and of 4000 ms after the second, none after the third, and
\* ended with an error; while it backs off, its timer runs for 2000 ms times
\* the number of attempts made.
RetryBound ==
  \A i \in Requests :
    /\ reqs[i].calls <= 3
    /\ Len(reqs[i].delays) <= 2
    /\ reqs[i].pc = "backoff" =>
         /\ reqs[i].timer.delay = 2000 * reqs[i].calls
         /\ reqs[i].delays[Len(reqs[i].delays)] = reqs[i].timer.delay
    /\ Len(reqs[i].faultLog) >= 1 => reqs[i].delays[1] = 2000
    /\ Len(reqs[i].faultLog) >= 2 => reqs[i].delays[2] = 4000
    /\ (reqs[i].pc = "done" /\ Len(reqs[i].faultLog) = reqs[i].calls /\ reqs[i].calls > 0) =>
         /\ reqs[i].calls = 3
         /\ reqs[i].delays = <<2000, 4000>>
         /\ Answered(i, 500)

\* C4 witness: a request ended after three failed invocations.
RetriesExhausted ==
  \E i \in Requests : EngineFailed(i) /\ Len(reqs[i].faultLog) = 3

\* Request i was answered 400 and touched neither engine, gate nor cache: it
\* made no engine invocation and never waited for or took the gate (only a
\* request that took the gate and invoked the engine writes the cache).
RejectedCleanly(i) ==
  /\ reqs[i].pc = "done"
  /\ Len(reqs[i].responses) = 1
  /\ reqs[i].responses[1].status = 400
  /\ reqs[i].calls = 0
  /\ ~reqs[i].polled

\* C5: every request whose url is missing, does not parse or has a scheme
\* other than http/https, or whose device is not an allowed value, is answered
\* 400 without engine invocation, gate acquisition or cache write.
ValidationRejects ==
  \A i \in Requests :
    (reqs[i].pc # "new" /\ ~Accepted(reqs[i].body)) => RejectedCleanly(i)

\* The part of C5 the handler keeps: the same, for requests whose body was
\* parsed into an object.
ValidationRejectsParsedBodies ==
  \A i \in Requests :
    (reqs[i].pc # "new" /\ reqs[i].body.hasBody /\ ~Accepted(reqs[i].body))
      => RejectedCleanly(i)

\* C6: a request gets at most one response, none before it is finished; a
\* response is 200 with one complete AuditResult, or 400 or 500 with an
\* {error, message} body.
SingleOutcome ==
  \A i \in Requests :
    /\ Len(reqs[i].responses) <= 1
    /\ reqs[i].pc # "done" => reqs[i].responses = <<>>
    /\ \A n \in 1..Len(reqs[i].responses) :
         LET res == reqs[i].responses[n] IN
         /\ res.status \in {200, 400, 500}
         /\ res.status = 200 => res.payload \in AuditResults
         /\ res.status # 200 => DOMAIN res.payload = {"error", "message"}

\* C6 witness: a 200, a 400 and a 500 have all been sent.
AllOutcomesSent ==
  /\ \E i \in Requests : Answered(i, 200)
  /\ \E i \in Requests : Answered(i, 400)
  /\ \E i \in Requests : Answered(i, 500)

\* C7: a request is answered 500 for engine failures only after its third
\* failed invocation, and the message carries the attempt count and the text
\* of the error of the last (third) invocation.
EngineFailureResponse ==
  \A i \in Requests :
    LET device == IdentityOf(reqs[i].body)[2] IN
    /\ (reqs[i].calls > 0 /\ Len(reqs[i].faultLog) < 3) =>
         (reqs[i].responses = <<>> \/ Answered(i, 200))
    /\ EngineFailed(i) =>
         /\ reqs[i].calls = 3
         /\ Len(reqs[i].faultLog) = 3
         /\ LastResponse(i).payload.message =
              <<device, "audit failed after", "3", "attempts:",
                device, "audit failed:", reqs[i].faultLog[3]>>

\* C7 witness: a request was answered 500 after three failures whose last
\* error differs from the earlier ones.
LastErrorDiffers ==
  \E i \in Requests :
    /\ EngineFailed(i)
    /\ reqs[i].faultLog[3] # reqs[i].faultLog[1]
    /\ reqs[i].faultLog[3] # reqs[i].faultLog[2]

\* C8: whenever no request is inside the protected section, the gate is free.
GateReleased == InSection = {} => isAuditRunning = FALSE

\* C8 witness: one request left the section with a result, another after its
\* retries were exhausted, and the section is empty.
SectionLeftBothWays ==
  /\ InSection = {}
  /\ \E i \in Requests : Answered(i, 200) /\ reqs[i].calls > 0
  /\ \E i \in Requests : EngineFailed(i)

\* How many of the runs scored above, and at least, the score p.
RunsAbove(p) == Cardinality({n \in 1..Len(samples) : samples[n].performance > p})
RunsAtLeast(p) == Cardinality({n \in 1..Len(samples) : samples[n].performance >= p})
ScoresOf(seq) == [n \in 1..Len(seq) |-> seq[n].performance]

\* C9: the value getMedianResult returns is one of the runs, and it stands at
\* index floor(n/2) of the runs ordered by performance descending: at most
\* floor(n/2) runs score above it and more than floor(n/2) score at least as
\* much; for [90, 70, 80] it is the run scoring 80, and for two runs the
\* lower-scoring one.
MedianSelection ==
  mpc = "returned" =>
    LET n == Len(samples)
        k == n \div 2
    IN
    /\ n = runs
    /\ \E m \in 1..n : samples[m] = median
    /\ RunsAbove(median.performance) <= k
    /\ RunsAtLeast(median.performance) > k
    /\ ScoresOf(samples) = <<90, 70, 80>> => median.performance = 80
    /\ n = 2 => /\ median.performance <= samples[1].performance
                 /\ median.performance <= samples[2].performance

\* C9 witness: four runs with distinct middle scores were aggregated, and the
\* lower of the two middle runs came back.
EvenRunsLowerMiddle ==
  /\ mpc = "returned"
  /\ ScoresOf(samples) = <<80, 90, 70, 90>>
  /\ ScoresOf(results) = <<90, 90, 80, 70>>
  /\ median.performance = 80

\* C10: a request that waited for the gate invokes the engine once it has the
\* gate, without looking at the cache again, and two requests for the same
\* (url, device) are inside the protected section one at a time.
NoCoalescing ==
  /\ \A i \in Requests :
       (reqs[i].polled /\ reqs[i].pc = "done") => reqs[i].calls >= 1
  /\ \A i, j \in InSection :
       (i # j) => IdentityOf(reqs[i].body) # IdentityOf(reqs[j].body)

\* The part of C10 the handler keeps: no second look at the cache.
NoRecheckAfterAcquire ==
  \A i \in Requests :
    (reqs[i].polled /\ reqs[i].pc = "done") => reqs[i].calls >= 1

\* n times the event e.
Repeat(e, n) == [k \in 1..n |-> e]

\* How many of the first n events of request i are the event e.
CountEvents(i, e, n) == Cardinality({k \in 1..n : reqs[i].events[k] = e})

\* Request i missed the cache and was answered 200 from its own audit.
SucceededOnMiss(i) == Answered(i, 200) /\ reqs[i].calls > 0

\* C15 (as stated): for a successful cache-miss request the events are: acquire
\* the gate, the engine calls, store in cache, release the gate, respond.
ReleaseBeforeRespond ==
  \A i \in Requests :
    SucceededOnMiss(i) =>
      reqs[i].events = <<"acquire">> \o Repeat("engine", reqs[i].calls)
                         \o <<"store", "release", "respond">>

\* C15 (amended): for a successful cache-miss request the events are: acquire
\* the gate, the engine calls, store in cache, respond, release the gate.
RespondBeforeRelease ==
  \A i \in Requests :
    SucceededOnMiss(i) =>
      reqs[i].events = <<"acquire">> \o Repeat("engine", reqs[i].calls)
                         \o <<"store", "respond", "release">>

\* C15 witness: a cache-miss request succeeded at its second engine call.
SucceededAfterRetry ==
  \E i \in Requests : SucceededOnMiss(i) /\ reqs[i].calls = 2

\* C16: every write of false to isAuditRunning is made by a request that took
\* the gate and has not yet released it: at no point of a request's history
\* has it released more often than it acquired.
ReleaseDiscipline ==
  \A i \in Requests :
    \A n \in 1..Len(reqs[i].events) :
      CountEvents(i, "release", n) <= CountEvents(i, "acquire", n)

\* The part of C16 that fails without any body-less request: no request that
\* took the gate releases it twice.
NoDoubleRelease ==
  \A i \in Requests :
    CountEvents(i, "acquire", Len(reqs[i].events)) = 1 =>
      CountEvents(i, "release", Len(reqs[i].events)) <= 1

\* Request j leaves the polling loop or is answered in this step.
Proceeds(j) ==
  \/ reqs'[j].calls # reqs[j].calls
  \/ reqs[j].pc = "poll" /\ reqs'[j].pc # "poll"
  \/ reqs[j].polled /\ Len(reqs'[j].responses) # Len(reqs[j].responses)

\* C18: for as long as the engine invocation of request i has not returned,
\* request i holds the gate, and no other request that missed the cache invokes
\* the engine, leaves its polling loop or is answered.
HungInvocationBlocksOthers ==
  [][\A i \in Requests :
       (reqs[i].pc = "engine" /\ reqs'[i].pc = "engine") =>
         /\ isAuditRunning'
         /\ \A j \in Requests \ {i} : ~Proceeds(j)]_vars

\* C20: while a request waits between two of its attempts the gate is held and
\* no engine invocation of another request is running.
GateHeldAcrossRetries ==
  \A i \in Requests :
    reqs[i].pc = "backoff" =>
      /\ isAuditRunning
      /\ InFlight \ {i} = {}

\* C12: each sample of runLighthouseWithMedian is retried up to 3 times: the
\* aggregation fails only after 3 engine attempts for the failing sample.
SamplesRetried ==
  mpc = "thrown" => mcalls - Len(samples) = DefaultMaxRetries

\* C13: the runs go one after another (at most one call beyond the results
\* collected); if a run fails, the aggregation fails with that run's error,
\* no later run is started and no result is returned.
MedianFailure ==
  /\ mcalls <= Len(samples) + 1
  /\ mpc = "running" => mcalls = Len(samples) + 1
  /\ mfaults # <<>> =>
       /\ mpc = "thrown"
       /\ Len(mfaults) = 1
       /\ merror = EngineError("mobile", mfaults[1])
       /\ mcalls = Len(samples) + 1
       /\ median = NoResult
  /\ mpc = "returned" => mfaults = <<>> /\ Len(samples) = runs

\* C13 witness: a run failed after others had succeeded and with runs left.
MiddleRunFailed ==
  /\ mpc = "thrown"
  /\ Len(samples) >= 1
  /\ Len(samples) + 1 < runs

\* The engine reported a numeric performance score in attempt k.
IsNumeric(v) == Typeof(v) = "number" /\ ~v.nan
Valid(k) == tries[k].lh.kind = "lhr" /\ IsNumeric(tries[k].lh.score)

\* C11: an attempt whose performance score is missing or non-numeric is never
\* accepted as a result; it counts as a failed attempt.
InvalidScoreRejected ==
  \A k \in 1..Len(tries) :
    (tries[k].lh.kind = "lhr" /\ ~IsNumeric(tries[k].lh.score)) => ~tries[k].accepted

\* C14: every launched process has had its termination attempted once its
\* invocation has settled, each attempt has a process of its own, and what an
\* invocation yields is what it had settled on before the termination,
\* whether or not the termination failed.
ProcessRelease ==
  /\ \A p \in 1..Len(procs) : p # chrome => procs[p].killTried
  /\ chrome # NoProcess =>
       /\ chrome \in 1..Len(procs)
       /\ procs[chrome].attempt = rattempts
       /\ ~procs[chrome].killTried
  /\ \A p, q \in 1..Len(procs) : p # q => procs[p].attempt # procs[q].attempt
  /\ \A k \in 1..Len(tries) :
       /\ tries[k].yielded = tries[k].determined
       /\ tries[k].launched =>
            \E p \in 1..Len(procs) : procs[p].attempt = k /\ procs[p].killTried
  /\ rpc \in {"attempt", "sleep", "returned", "thrown"} => chrome = NoProcess

\* C14 witness: the termination failed after an invocation that had a result
\* and after one that had an error, and a later attempt launched a new process.
KillFailedBothWays ==
  /\ \E k \in 1..Len(tries) : tries[k].killFailed /\ tries[k].yielded.kind = "return"
  /\ \E k \in 1..Len(tries) : tries[k].killFailed /\ tries[k].yielded.kind = "throw"
  /\ Len(procs) >= 2

\* C19: if attempt k is the first valid one, there are exactly k invocations,
\* the waits are 2000 ms times the attempt number after each of the k-1
\* failed attempts, and the value returned is attempt k's result.
StopsAtFirstSuccess ==
  \A k \in 1..Len(tries) :
    (Valid(k) /\ \A j \in 1..(k - 1) : ~Valid(j)) =>
      /\ Len(tries) = k
      /\ rattempts = k
      /\ rpc = "returned"
      /\ waits = [j \in 1..(k - 1) |-> j * BackoffUnit]
      /\ rresult = tries[k].determined.result
      /\ rresult = [performance |-> RoundTimes100(tries[k].lh.score)]
      /\ rerror = <<>>

\* C19 witness: the third attempt was the first valid one.
ThirdAttemptValid ==
  /\ Len(tries) = 3
  /\ Valid(3)
  /\ ~tries[1].launched
  /\ tries[2].launched

\* Request i receives a response of one of the given statuses in this step.
AnsweredNow(i, statuses) ==
  /\ Len(reqs'[i].responses) > Len(reqs[i].responses)
  /\ reqs'[i].responses[Len(reqs'[i].responses)].status \in statuses

\* C21: a step that answers 400 or 500 leaves the cache as it was (entries
\* keep result and timestamp, nothing is added), every entry holds the result
\* of a successful audit, and a request for a key whose audit failed, finding
\* no fresh entry, goes on to the gate and the engine.
FailureLeavesCache ==
  /\ [](\A key \in DOMAIN cache : cache[key].data \in AuditResults)
  /\ [][\A i \in Requests :
         /\ AnsweredNow(i, {400, 500}) => cache' = cache
         /\ LET body == reqs'[i].body
                key == body.url \o "-" \o IdentityOf(body)[2]
                fresh == key \in DOMAIN cache /\ now - cache[key].timestamp < 3600000
            IN (/\ Handled(i)
                /\ Accepted(body)
                /\ ~fresh
                /\ \E j \in Requests :
                     EngineFailed(j) /\ IdentityOf(reqs[j].body) = IdentityOf(body)) =>
                 /\ reqs'[i].pc \in {"poll", "engine"}
                 /\ reqs'[i].responses = <<>>]_vars

\* C21 witness: an audit of a key failed while the cache held an entry for the
\* key, the entry is as the last successful audit left it, and a later request
\* for the key is in an engine invocation.
FailureKeptEntry ==
  \E i, j \in Requests :
    LET id == IdentityOf(reqs[i].body)
        key == CacheKey(id[1], id[2])
    IN
    /\ i < j
    /\ EngineFailed(i)
    /\ key \in DOMAIN cache
    /\ cache[key] = [timestamp |-> lastResult[id].at, data |-> lastResult[id].result]
    /\ Accepted(reqs[j].body)
    /\ IdentityOf(reqs[j].body) = id
    /\ reqs[j].pc = "engine"

\* C22: a request whose key has a fresh entry is answered in the step that
\* handles it, whatever the gate's state; it does not poll, does not acquire or
\* release the gate, and leaves isAuditRunning and the entry unchanged.
CacheHitBypassesGate ==
  [][\A i \in Requests :
       LET body == reqs'[i].body
           key == body.url \o "-" \o IdentityOf(body)[2]
           fresh == key \in DOMAIN cache /\ now - cache[key].timestamp < 3600000
       IN (Handled(i) /\ Accepted(body) /\ fresh) =>
            /\ HitStep(i)
            /\ reqs'[i].responses[1].payload = cache[key].data
            /\ isAuditRunning' = isAuditRunning
            /\ ~reqs'[i].polled
            /\ reqs'[i].events = <<"respond">>
            /\ cache'[key] = cache[key]]_vars

\* C22 witness: a request was served from the cache after another request,
\* which took the gate on arrival and still holds it, had arrived.
HitWhileGateHeld ==
  \E i, j \in Requests :
    /\ j < i
    /\ ServedFromCache(i)
    /\ reqs[j].pc \in {"engine", "backoff"}
    /\ ~reqs[j].polled
    /\ isAuditRunning

\* C23: every request that has arrived is eventually answered, with exactly
\* one response, and from some point on no request is in the handler and the
\* gate is free.
Progress ==
  /\ \A i \in Requests :
       (reqs[i].pc # "new") ~> (reqs[i].pc = "done" /\ Len(reqs[i].responses) = 1)
  /\ <>[](/\ \A i \in Requests : reqs[i].pc \in {"new", "done"}
          /\ isAuditRunning = FALSE)

\* C23 witness: all requests have arrived and been answered, one of them
\* after polling and one after a retry, and the gate is free.
AllAnswered ==
  /\ \A i \in Requests : reqs[i].pc = "done" /\ Len(reqs[i].responses) = 1
  /\ \E i \in Requests : reqs[i].polled /\ reqs[i].calls > 0
  /\ \E i \in Requests : reqs[i].calls > 1
  /\ isAuditRunning = FALSE

====
